---- MODULE Spec2Model ----
(***************************************************************************)
(* AI Exam System - question generator (python-backend/                    *)
(* question_generator.py).  A sequential script: startup credential check, *)
(* a retry loop around an external model client, a regex parser for the    *)
(* client's free text, de-duplication by question text, and one JSON write *)
(* at the end.                                                              *)
(*                                                                         *)
(* Text is modelled at the character level: a Python str is a sequence of  *)
(* one-character strings, so that the regular expression of parse_mcq and  *)
(* str.strip() are computed, not assumed.                                  *)
(***************************************************************************)
EXTENDS Integers, Sequences, FiniteSets, TLC

VARIABLES
    pc,              \* position of the script: "start", "loop", "save", "done", "aborted"
    environ,         \* os.environ["GEMINI_API_KEY"]: None when unset, else a str
    argv,            \* sys.argv
    subject,         \* module global, line 30
    level,           \* module global, line 31
    dataset,         \* list of accepted records, line 71
    seen_questions,  \* set of accepted question texts, line 72
    tries,           \* attempt counter, line 73
    prompt,          \* module global, line 78
    response,        \* module global, line 80: what the client returned last
    text,            \* module global, line 81 (empty before the first response)
    parsed,          \* module global, line 82
    client,          \* the external model client: its behaviour, the calls made
                     \* to it, the questions it has handed out, its last outcome
    file,            \* data/questions_dataset.json: whether it exists, its content, writes
    twin             \* a second run of the script that is fed the same client
                     \* outcomes (NoTwin where a single run is looked at)

vars == <<pc, environ, argv, subject, level, dataset, seen_questions, tries,
          prompt, response, text, parsed, client, file, twin>>

-----------------------------------------------------------------------------
(* Python values *)

None == [none |-> TRUE]

\* subject and level before line 30 assigns them (a str afterwards)
Unassigned == ""

Letters == {"A", "B", "C", "D"}

\* the characters str.isspace() and the regex class \s agree on, as far as the
\* modelled alphabet goes
Whitespace == {" ", "\n", "\t"}

-----------------------------------------------------------------------------
(* str.strip(), lines 65-67 *)

RECURSIVE lstrip(_)
lstrip(s) ==
    IF s # <<>> /\ Head(s) \in Whitespace THEN lstrip(Tail(s)) ELSE s

RECURSIVE rstrip(_)
rstrip(s) ==
    IF s # <<>> /\ s[Len(s)] \in Whitespace
    THEN rstrip(SubSeq(s, 1, Len(s) - 1))
    ELSE s

\* a mutant of strip: only leading whitespace is removed
strip_left(s) == lstrip(s)

strip(s) == rstrip(lstrip(s))

-----------------------------------------------------------------------------
(* The pattern of line 56:                                                 *)
(*   Q:\s*(.*?)\nA\.\s*(.*?)\nB\.\s*(.*?)\nC\.\s*(.*?)\nD\.\s*(.*?)        *)
(*   \nAnswer:\s*([ABCD])                                                  *)
(* compiled with re.DOTALL and applied with re.search.                     *)

LitQ == <<"Q", ":">>

\* Literal(s) is the literal text that ends the s-th lazy group
Literal(s) ==
    CASE s = 1 -> <<"\n", "A", ".">>
      [] s = 2 -> <<"\n", "B", ".">>
      [] s = 3 -> <<"\n", "C", ".">>
      [] s = 4 -> <<"\n", "D", ".">>
      [] s = 5 -> <<"\n", "A", "n", "s", "w", "e", "r", ":">>

NoMatch == <<>>

\* the literal lit occurs in str at position pos
StartsAt(str, pos, lit) ==
    /\ pos >= 1
    /\ pos + Len(lit) - 1 <= Len(str)
    /\ \A i \in 1..Len(lit) : str[pos + i - 1] = lit[i]

\* number of consecutive whitespace characters of str from position pos on
RECURSIVE SpaceRun(_, _)
SpaceRun(str, pos) ==
    IF pos <= Len(str) /\ str[pos] \in Whitespace
    THEN 1 + SpaceRun(str, pos + 1)
    ELSE 0

\* the final group ([ABCD]) at position pos
AnswerGroup(str, pos) ==
    IF pos <= Len(str) /\ str[pos] \in Letters
    THEN << <<str[pos]>> >>
    ELSE NoMatch

\* The backtracking matcher.  MatchFrom(str, pos, s) matches the pattern from
\* its s-th "\s*" on (s = 6 is the one before the answer letter) at position
\* pos, and returns the groups s..6 of the first match in the order a
\* backtracking engine tries them: \s* greedy (longest first), (.*?) lazy
\* (shortest first).
RECURSIVE MatchFrom(_, _, _), TryGreedy(_, _, _, _), TryLazy(_, _, _, _)

TryLazy(str, start, s, m) ==
    IF start + m + Len(Literal(s)) - 1 > Len(str)
    THEN NoMatch
    ELSE IF StartsAt(str, start + m, Literal(s))
         THEN LET rest == MatchFrom(str, start + m + Len(Literal(s)), s + 1)
              IN  IF rest # NoMatch
                  THEN <<SubSeq(str, start, start + m - 1)>> \o rest
                  ELSE TryLazy(str, start, s, m + 1)
         ELSE TryLazy(str, start, s, m + 1)

TryGreedy(str, pos, s, k) ==
    IF k < 0
    THEN NoMatch
    ELSE LET r == IF s = 6
                  THEN AnswerGroup(str, pos + k)
                  ELSE TryLazy(str, pos + k, s, 0)
         IN  IF r # NoMatch THEN r ELSE TryGreedy(str, pos, s, k - 1)

MatchFrom(str, pos, s) == TryGreedy(str, pos, s, SpaceRun(str, pos))

\* re.search: the leftmost position at which the pattern matches
RECURSIVE SearchFrom(_, _)
SearchFrom(str, i) ==
    IF i > Len(str)
    THEN NoMatch
    ELSE IF StartsAt(str, i, LitQ)
         THEN LET r == MatchFrom(str, i + Len(LitQ), 1)
              IN  IF r # NoMatch THEN r ELSE SearchFrom(str, i + 1)
         ELSE SearchFrom(str, i + 1)

-----------------------------------------------------------------------------
(* Bounds of the model *)

\* identifiers of the question texts the client can produce are 0..2^IdBits-1
IdBits == 5

-----------------------------------------------------------------------------
(* Program constants *)

MaxQuestions == 10      \* line 77: len(dataset) < 10
MaxTries == 30          \* line 77: tries < 30

DefaultSubject == "General Knowledge"   \* line 30
DefaultLevel == "Beginner"              \* line 31

-----------------------------------------------------------------------------
(* The text of a response.  A layout names the labelled fields of a        *)
(* response, the whitespace around them, text before and after the block,  *)
(* and the shape of the block; Render is the text the model returned.      *)

Shapes == {"full", "noQ", "noA", "noB", "noC", "noD", "noAnswer", "swapBC"}

Layout(pre, q, a, b, c, d, ans, suf, lpad, rpad, shape) ==
    [pre |-> pre, q |-> q, a |-> a, b |-> b, c |-> c, d |-> d, ans |-> ans,
     suf |-> suf, lpad |-> lpad, rpad |-> rpad, shape |-> shape]

Render(l) ==
    LET QLine   == <<"Q", ":">> \o l.lpad \o l.q \o l.rpad
        ALine   == <<"\n", "A", ".">> \o l.lpad \o l.a \o l.rpad
        BLine   == <<"\n", "B", ".">> \o l.lpad \o l.b \o l.rpad
        CLine   == <<"\n", "C", ".">> \o l.lpad \o l.c \o l.rpad
        DLine   == <<"\n", "D", ".">> \o l.lpad \o l.d \o l.rpad
        AnsLine == <<"\n", "A", "n", "s", "w", "e", "r", ":">> \o l.lpad \o <<l.ans>>
        Block   ==
            CASE l.shape = "full"     -> QLine \o ALine \o BLine \o CLine \o DLine \o AnsLine
              [] l.shape = "noQ"      -> ALine \o BLine \o CLine \o DLine \o AnsLine
              [] l.shape = "noA"      -> QLine \o BLine \o CLine \o DLine \o AnsLine
              [] l.shape = "noB"      -> QLine \o ALine \o CLine \o DLine \o AnsLine
              [] l.shape = "noC"      -> QLine \o ALine \o BLine \o DLine \o AnsLine
              [] l.shape = "noD"      -> QLine \o ALine \o BLine \o CLine \o AnsLine
              [] l.shape = "noAnswer" -> QLine \o ALine \o BLine \o CLine \o DLine
              [] l.shape = "swapBC"   -> QLine \o ALine \o CLine \o BLine \o DLine \o AnsLine
    IN  l.pre \o Block \o l.suf

-----------------------------------------------------------------------------
(* What the model client can return (lines 80-81).  generate_content       *)
(* either raises or returns a response object; reading response.text       *)
(* raises when the response carries no text (a blocked response).          *)

ClientErrors == {"ResourceExhausted", "DeadlineExceeded"}

Raise(e) == [kind |-> "raise", error |-> e]
Blocked == [kind |-> "response", blocked |-> TRUE]
Resp(l) == [kind |-> "response", blocked |-> FALSE, layout |-> l]

\* the i-th question text the client knows: IdBits characters, x or y
RECURSIVE Bits(_, _)
Bits(i, n) ==
    IF n = 0 THEN <<>>
    ELSE Bits(i \div 2, n - 1) \o <<IF i % 2 = 0 THEN "x" ELSE "y">>

QText(i) == Bits(i, IdBits)

LetterOf(i) == <<"A", "B", "C", "D">>[(i % 4) + 1]

\* a response in the requested format carrying question i
Good(i) ==
    Layout(<<>>, QText(i), <<"a", "1">>, <<"b", "2">>, <<"c", "3">>, <<"d", "4">>,
           LetterOf(i), <<>>, <<" ">>, <<>>, "full")

\* the same question again, other whitespace, other options, other answer
Again(i) ==
    Layout(<<>>, QText(i), <<"d", "4">>, <<"c", "3">>, <<"b", "2">>, <<"a", "1">>,
           LetterOf(i + 1), <<>>, <<" ", " ">>, <<" ">>, "full")

\* question i in the requested format, wrapped in commentary
Chatty(i) ==
    Layout(<<"O", "k", ":", "\n">>, QText(i), <<"a", "1">>, <<"b", "2">>, <<"c", "3">>,
           <<"d", "4">>, LetterOf(i), <<"\n", "B", "y", "e">>, <<" ">>, <<>>, "full")

\* question i with the Answer line missing
Broken(i) ==
    Layout(<<>>, QText(i), <<"a", "1">>, <<"b", "2">>, <<"c", "3">>, <<"d", "4">>,
           LetterOf(i), <<>>, <<" ">>, <<>>, "noAnswer")

\* the texts the client can return
ClientTexts ==
    {Render(l) : l \in UNION {{Good(i), Again(i), Chatty(i), Broken(i)} :
                                i \in 0..(2^IdBits - 1)}}

\* re.search on the client's texts, computed once
SearchTable == [t \in ClientTexts |-> SearchFrom(t, 1)]

\* a mutant of re_search: re.match, which matches at the start of the text only
re_match(str) ==
    IF StartsAt(str, 1, LitQ) THEN MatchFrom(str, 1 + Len(LitQ), 1) ELSE NoMatch

re_search(str) ==
    IF str \in ClientTexts THEN SearchTable[str] ELSE SearchFrom(str, 1)

\* parse_mcq, lines 51-68; subject and level are the module globals
parse_mcq(str) ==
    LET match == re_search(str)
    IN  IF match = NoMatch
        THEN None
        ELSE [subject  |-> subject,
              level    |-> level,
              question |-> strip(match[1]),
              options  |-> [A |-> strip(match[2]), B |-> strip(match[3]),
                            C |-> strip(match[4]), D |-> strip(match[5])],
              correct  |-> strip(match[6])]

ClientModes == {"any", "always_fail", "distinct", "alternate"}

\* An unconstrained client.  It returns the questions it knows in order of
\* their identifiers (delivered is how many it has handed out), and may at any
\* call fail, return text that is not in the format, or repeat the first or
\* the latest question it handed out.
AnyOutcome(c) ==
    {Raise(e) : e \in ClientErrors}
    \cup {Blocked, Resp(Broken(c.delivered + 1))}
    \cup {Resp(Good(c.delivered + 1)), Resp(Chatty(c.delivered + 1))}
    \cup {Resp(Good(j)) : j \in {1} \cap (1..c.delivered)}
    \cup {Resp(Again(j)) : j \in {1, c.delivered} \cap (1..c.delivered)}

\* the outcomes the k-th call (k = c.calls + 1) of client c can have
Outcomes(c) ==
    LET k == c.calls + 1
    IN  CASE c.mode = "any" -> AnyOutcome(c)
          [] c.mode = "always_fail" -> {Raise(e) : e \in ClientErrors}
          [] c.mode = "distinct" ->
                IF k <= MaxQuestions THEN {Resp(Good(k)), Resp(Chatty(k))}
                ELSE AnyOutcome(c)
          [] c.mode = "alternate" ->
                IF k % 2 = 1 THEN {Resp(Good(c.delivered + 1))}
                ELSE {Resp(Good(1)), Resp(Again(1))}

\* outcome o hands out the next question the client has not handed out yet
IsFresh(o, c) ==
    /\ o.kind = "response"
    /\ ~o.blocked
    /\ o.layout.shape = "full"
    /\ o.layout.q = QText(c.delivered + 1)

\* the client after a call with outcome o
Called(c, o) ==
    [c EXCEPT !.calls = @ + 1,
              !.delivered = IF IsFresh(o, c) THEN @ + 1 ELSE @,
              !.last = o]

-----------------------------------------------------------------------------
(* The script *)

\* a mutant of NoApiKey: the check is missing
NoApiKeyUnchecked(env) == FALSE

\* os.getenv("GEMINI_API_KEY") and "not API_KEY", lines 21-22: None (the
\* variable is not set) and the empty string are falsy
NoApiKey(env) == ~env.set \/ env.value = ""

\* build_prompt, lines 33-49: the two places of the template that vary
build_prompt(subj, lvl, count) ==
    [level |-> lvl, subject |-> subj, number |-> count + 1]

\* a mutant of Caught: "except ValueError"
CaughtValueError(e) == e = "ValueError"

\* "except Exception", line 94: every error of the client and of
\* response.text is an Exception
Caught(e) == e \in ClientErrors \cup {"ValueError"}

\* json.dump(dataset, f, indent=4), line 102: a JSON array of objects, each
\* the key/value pairs of a record in insertion order
json_object(r) ==
    << <<"subject", r.subject>>, <<"level", r.level>>, <<"question", r.question>>,
       <<"options", << <<"A", r.options.A>>, <<"B", r.options.B>>,
                       <<"C", r.options.C>>, <<"D", r.options.D>> >> >>,
       <<"correct", r.correct>> >>

json_dump(list) == [i \in 1..Len(list) |-> json_object(list[i])]

\* a mutant of LoopCondition: both comparisons off by one
LoopConditionOffByOne == Len(dataset) <= MaxQuestions /\ tries <= MaxTries

\* a mutant of LoopCondition: only the attempts are counted
LoopConditionTriesOnly == tries < MaxTries

\* the loop condition, line 77
LoopCondition == Len(dataset) < MaxQuestions /\ tries < MaxTries

\* lines 21-31: the credential check, then subject and level from sys.argv
Startup ==
    /\ pc = "start"
    /\ IF NoApiKey(environ)
       THEN /\ pc' = "aborted"
            /\ UNCHANGED <<subject, level>>
       ELSE /\ pc' = "loop"
            /\ subject' = IF Len(argv) > 1 THEN argv[2] ELSE DefaultSubject
            /\ level' = IF Len(argv) > 2 THEN argv[3] ELSE DefaultLevel
    /\ UNCHANGED <<environ, argv, dataset, seen_questions, tries, prompt,
                   response, text, parsed, client, file>>

\* a mutant of Accepts: no duplicate check at all
AcceptsAll(p, seen) == p # None

\* a mutant of Accepts: a question is compared with the latest accepted one only
AcceptsUnlessRepeated(p, seen) ==
    /\ p # None
    /\ (dataset = <<>> \/ p.question # dataset[Len(dataset)].question)

\* "if parsed" and "question_text not in seen_questions", lines 84-86
Accepts(p, seen) == p # None /\ p.question \notin seen

\* a mutant of append: the record is put in front
insert_front(list, p) == <<p>> \o list

\* dataset.append(parsed), line 87
append(list, p) == Append(list, p)

\* The loop with two of its lines changed: the prompt is built with index,
\* and "tries += 1" is moved, so that the counter grows by onError after an
\* attempt that raised and by onAccept after one that was accepted.
AttemptWith(index, onError, onAccept) ==
    /\ pc = "loop"
    /\ LoopCondition
    /\ prompt' = build_prompt(subject, level, index)
    /\ \E o \in Outcomes(client) :
        /\ client' = Called(client, o)
        /\ pc' = "loop"
        /\ IF o.kind = "raise"
           THEN /\ UNCHANGED <<response, text, parsed, dataset, seen_questions>>
                /\ tries' = tries + onError
           ELSE /\ response' = o
                /\ IF o.blocked
                   THEN /\ UNCHANGED <<text, parsed, dataset, seen_questions>>
                        /\ tries' = tries + onError
                   ELSE /\ text' = Render(o.layout)
                        /\ parsed' = parse_mcq(text')
                        /\ IF Accepts(parsed', seen_questions)
                           THEN /\ dataset' = append(dataset, parsed')
                                /\ seen_questions' = seen_questions \cup {parsed'.question}
                                /\ tries' = tries + onAccept
                           ELSE /\ UNCHANGED <<dataset, seen_questions>>
                                /\ tries' = tries + 1
    /\ UNCHANGED <<environ, argv, subject, level, file>>

\* a mutant of Attempt: "tries += 1" inside the try block, skipped by an exception
AttemptCountInTry == AttemptWith(Len(dataset), 0, 1)

\* a mutant of Attempt: "tries += 1" in the branches that reject only
AttemptCountRejected == AttemptWith(Len(dataset), 1, 0)

\* a mutant of Attempt: the prompt is numbered by the attempts
AttemptPromptByTries == AttemptWith(tries, 1, 1)

\* one iteration of the loop, lines 77-96
Attempt ==
    /\ pc = "loop"
    /\ LoopCondition
    /\ prompt' = build_prompt(subject, level, Len(dataset))
    /\ \E o \in Outcomes(client) :
        /\ client' = Called(client, o)
        /\ IF o.kind = "raise"
           THEN \* generate_content raised
                /\ UNCHANGED <<response, text, parsed, dataset, seen_questions>>
                /\ pc' = IF Caught(o.error) THEN "loop" ELSE "crashed"
                /\ tries' = IF Caught(o.error) THEN tries + 1 ELSE tries
           ELSE /\ response' = o
                /\ IF o.blocked
                   THEN \* response.text raised ValueError
                        /\ UNCHANGED <<text, parsed, dataset, seen_questions>>
                        /\ pc' = IF Caught("ValueError") THEN "loop" ELSE "crashed"
                        /\ tries' = IF Caught("ValueError") THEN tries + 1 ELSE tries
                   ELSE /\ text' = Render(o.layout)
                        /\ parsed' = parse_mcq(text')
                        /\ IF Accepts(parsed', seen_questions)
                           THEN /\ dataset' = append(dataset, parsed')
                                /\ seen_questions' = seen_questions \cup {parsed'.question}
                           ELSE UNCHANGED <<dataset, seen_questions>>
                        /\ pc' = "loop"
                        /\ tries' = tries + 1
    /\ UNCHANGED <<environ, argv, subject, level, file>>

\* the loop condition is false, line 77
ExitLoop ==
    /\ pc = "loop"
    /\ ~LoopCondition
    /\ pc' = "save"
    /\ UNCHANGED <<environ, argv, subject, level, dataset, seen_questions, tries,
                   prompt, response, text, parsed, client, file>>

\* a mutant of Save: the file is written only when the dataset is complete
SaveOnlyIfFull ==
    /\ pc = "save"
    /\ file' = IF Len(dataset) = MaxQuestions
               THEN [dir |-> TRUE, exists |-> TRUE, content |-> json_dump(dataset),
                     writes |-> file.writes + 1]
               ELSE file
    /\ pc' = "done"
    /\ UNCHANGED <<environ, argv, subject, level, dataset, seen_questions, tries,
                   prompt, response, text, parsed, client>>

\* a mutant of Save: the records are dumped from an unordered collection, in
\* some rotation of the order of acceptance
SaveShuffled ==
    /\ pc = "save"
    /\ \E k \in 0..Len(dataset) :
        file' = [dir |-> TRUE, exists |-> TRUE,
                 content |-> json_dump(SubSeq(dataset, k + 1, Len(dataset))
                                           \o SubSeq(dataset, 1, k)),
                 writes |-> file.writes + 1]
    /\ pc' = "done"
    /\ UNCHANGED <<environ, argv, subject, level, dataset, seen_questions, tries,
                   prompt, response, text, parsed, client>>

\* lines 99-102: create the directory, write the file
Save ==
    /\ pc = "save"
    /\ file' = [dir |-> TRUE, exists |-> TRUE, content |-> json_dump(dataset),
                writes |-> file.writes + 1]
    /\ pc' = "done"
    /\ UNCHANGED <<environ, argv, subject, level, dataset, seen_questions, tries,
                   prompt, response, text, parsed, client>>

Environs == {[set |-> FALSE, value |-> ""], [set |-> TRUE, value |-> ""],
             [set |-> TRUE, value |-> "key"]}

NoFile == [dir |-> FALSE, exists |-> FALSE, content |-> <<>>, writes |-> 0]
StaleFile == [dir |-> TRUE, exists |-> TRUE, content |-> <<"stale">>, writes |-> 0]

\* the invocations: sys.argv, and the data directory and output file before
\* the run
Invocations ==
    {[argv |-> <<"question_generator.py">>, file |-> NoFile],
     [argv |-> <<"question_generator.py", "Python">>, file |-> StaleFile],
     [argv |-> <<"question_generator.py", "Python", "Advanced">>, file |-> NoFile]}

\* one run before its first line
InitRun ==
    /\ pc = "start"
    /\ environ \in Environs
    /\ \E inv \in Invocations : argv = inv.argv /\ file = inv.file
    /\ subject = Unassigned
    /\ level = Unassigned
    /\ dataset = <<>>
    /\ seen_questions = {}
    /\ tries = 0
    /\ prompt = None
    /\ response = None
    /\ text = <<>>
    /\ parsed = None
    /\ client \in {[mode |-> m, calls |-> 0, delivered |-> 0, last |-> None] :
                        m \in ClientModes}

\* no second run
NoTwin == [pc |-> "none"]

Init == InitRun /\ twin = NoTwin

Next ==
    \/ Startup /\ UNCHANGED twin
    \/ Attempt /\ UNCHANGED twin
    \/ ExitLoop /\ UNCHANGED twin
    \/ Save /\ UNCHANGED twin

Spec == Init /\ [][Next]_vars

\* the script is sequential and every call returns or raises: it keeps running
FairSpec == Spec /\ WF_vars(Next)

-----------------------------------------------------------------------------
(* Two runs of the script side by side.  The second run (twin) is started  *)
(* with the same environment and sys.argv, over a data directory of its    *)
(* own, and at every attempt its client hands it the outcome the client of *)
(* the first run has just handed out.  Its steps are the same lines of the *)
(* script, computed on its own copies of the module globals.               *)

\* the second run before its first line
TwinStart(f) ==
    [pc |-> "start", subject |-> Unassigned, level |-> Unassigned,
     dataset |-> <<>>, seen_questions |-> {}, tries |-> 0, file |-> f]

\* the second run has left the course of the first one
Diverged(t) == [t EXCEPT !.pc = "diverged"]

\* lines 21-31 in the second run
TwinStartup(t) ==
    IF t.pc # "start" THEN Diverged(t)
    ELSE IF NoApiKey(environ) THEN [t EXCEPT !.pc = "aborted"]
    ELSE [t EXCEPT !.pc = "loop",
                   !.subject = IF Len(argv) > 1 THEN argv[2] ELSE DefaultSubject,
                   !.level = IF Len(argv) > 2 THEN argv[3] ELSE DefaultLevel]

\* the loop condition of the second run, line 77
TwinLoopCondition(t) == Len(t.dataset) < MaxQuestions /\ t.tries < MaxTries

\* what an exception does to the second run, lines 94-96
TwinExcept(t, e) ==
    IF Caught(e) THEN [t EXCEPT !.tries = @ + 1] ELSE [t EXCEPT !.pc = "crashed"]

\* parse_mcq in the second run: the record carries that run's subject and level
TwinParse(t, str) ==
    LET p == parse_mcq(str)
    IN  IF p = None THEN None
        ELSE [p EXCEPT !.subject = t.subject, !.level = t.level]

\* one iteration of the loop in the second run, its client returning o,
\* lines 77-96
TwinAttempt(t, o) ==
    IF t.pc # "loop" \/ ~TwinLoopCondition(t) THEN Diverged(t)
    ELSE IF o.kind = "raise" THEN TwinExcept(t, o.error)
    ELSE IF o.blocked THEN TwinExcept(t, "ValueError")
    ELSE LET p == TwinParse(t, Render(o.layout))
         IN  IF Accepts(p, t.seen_questions)
             THEN [t EXCEPT !.dataset = append(@, p),
                            !.seen_questions = @ \cup {p.question},
                            !.tries = @ + 1]
             ELSE [t EXCEPT !.tries = @ + 1]

\* the loop condition of the second run is false, line 77
TwinExitLoop(t) ==
    IF t.pc = "loop" /\ ~TwinLoopCondition(t) THEN [t EXCEPT !.pc = "save"]
    ELSE Diverged(t)

\* lines 99-102 in the second run
TwinSave(t) ==
    IF t.pc # "save" THEN Diverged(t)
    ELSE [t EXCEPT !.pc = "done",
                   !.file = [dir |-> TRUE, exists |-> TRUE,
                             content |-> json_dump(t.dataset),
                             writes |-> @.writes + 1]]

PairStartup == Startup /\ twin' = TwinStartup(twin)

\* both clients return the same outcome
PairAttempt == Attempt /\ twin' = TwinAttempt(twin, client'.last)

PairExitLoop == ExitLoop /\ twin' = TwinExitLoop(twin)

PairSave == Save /\ twin' = TwinSave(twin)

InitPair == InitRun /\ twin \in {TwinStart(f) : f \in {NoFile, StaleFile}}

NextPair == PairStartup \/ PairAttempt \/ PairExitLoop \/ PairSave

SpecPair == InitPair /\ [][NextPair]_vars

-----------------------------------------------------------------------------
(* parse_mcq on its own: the response is drawn from a bounded set of       *)
(* layouts, then parsed.                                                   *)

Prefixes == {<<>>, <<"O", "k", "\n">>, <<"Q", ":", "z", "\n">>}
Suffixes == {<<>>, <<"B">>, <<"\n", "o", "k">>}
QFields == {<<>>, <<"x">>, <<"x", " ", "y">>, <<"x", "\n", "y">>}
AFields == {<<"a">>, <<"a", "\n", "a">>}
LeftPads == {<<>>, <<" ">>, <<"\n", " ">>}
RightPads == {<<>>, <<" ">>}

\* every well-shaped block in every wrapping; every shape, and an answer that
\* is no option letter, in some
ParseInputs ==
    {Layout(pre, q, a, <<"b">>, <<"c">>, <<"d">>, ans, suf, lpad, rpad, "full") :
        pre \in Prefixes, q \in QFields, a \in AFields, ans \in Letters,
        suf \in Suffixes, lpad \in LeftPads, rpad \in RightPads}
    \cup
    {Layout(pre, q, <<"a">>, <<"b">>, <<"c">>, <<"d">>, ans, suf, <<" ">>, <<>>, shape) :
        pre \in Prefixes, q \in {<<"x">>, <<"x", "\n", "y">>}, ans \in {"A", "E"},
        suf \in Suffixes, shape \in Shapes}

InitParse ==
    /\ pc = "parse"
    /\ environ = [set |-> TRUE, value |-> "key"]
    /\ argv = <<"question_generator.py", "Python">>
    /\ file = NoFile
    /\ subject = "Python"
    /\ level = DefaultLevel
    /\ dataset = <<>>
    /\ seen_questions = {}
    /\ tries = 0
    /\ prompt = None
    /\ \E l \in ParseInputs : response = Resp(l) /\ text = Render(l)
    /\ parsed = None
    /\ client = [mode |-> "any", calls |-> 1, delivered |-> 0, last |-> response]
    /\ twin = NoTwin

\* line 82
ParseResponse ==
    /\ pc = "parse"
    /\ parsed' = parse_mcq(text)
    /\ pc' = "parsed"
    /\ UNCHANGED <<environ, argv, subject, level, dataset, seen_questions, tries,
                   prompt, response, text, client, file>>

NextParse == ParseResponse /\ UNCHANGED twin

SpecParse == InitParse /\ [][NextParse]_vars

-----------------------------------------------------------------------------
(* Properties of the run *)

\* the script is past its last attempt
LoopEnded == pc \in {"save", "done"}

\* the value stored under key in a JSON object
Value(obj, key) == (CHOOSE i \in 1..Len(obj) : obj[i][1] = key)
JsonValue(obj, key) == obj[Value(obj, key)][2]

\* the record a JSON object of the output file stands for
json_record(obj) ==
    [subject  |-> JsonValue(obj, "subject"),
     level    |-> JsonValue(obj, "level"),
     question |-> JsonValue(obj, "question"),
     options  |-> [A |-> JsonValue(JsonValue(obj, "options"), "A"),
                   B |-> JsonValue(JsonValue(obj, "options"), "B"),
                   C |-> JsonValue(JsonValue(obj, "options"), "C"),
                   D |-> JsonValue(JsonValue(obj, "options"), "D")],
     correct  |-> JsonValue(obj, "correct")]

\* the output file holds exactly the records of list, in order
FileHolds(list) ==
    /\ file.exists
    /\ Len(file.content) = Len(list)
    /\ \A i \in 1..Len(list) : json_record(file.content[i]) = list[i]

\* the record the client's i-th question stands for
ExpectedRecord(i) ==
    [subject  |-> subject,
     level    |-> level,
     question |-> QText(i),
     options  |-> [A |-> <<"a", "1">>, B |-> <<"b", "2">>,
                   C |-> <<"c", "3">>, D |-> <<"d", "4">>],
     correct  |-> <<LetterOf(i)>>]

\* C1: in every reachable state the accepted list holds at most 10 records
\* and the attempt counter is at most 30, whatever the client does.
C1_Bounds == Len(dataset) <= 10 /\ tries <= 30

\* an unconstrained client filled the list with the last permitted attempt
C1_Witness ==
    /\ client.mode = "any"
    /\ Len(dataset) = 10
    /\ tries = 30

\* C2: no two records of the accepted list have the same question text.
C2_Unique ==
    \A i, j \in 1..Len(dataset) :
        i # j => dataset[i].question # dataset[j].question

\* a response repeating an accepted question, with other options, was skipped
C2_Witness ==
    /\ pc = "loop"
    /\ Len(dataset) >= 2
    /\ parsed # None
    /\ \E i \in 1..Len(dataset) :
        /\ dataset[i].question = parsed.question
        /\ dataset[i].options # parsed.options

\* C3: every run terminates; from the top of the loop the next step is an
\* attempt exactly when fewer than 10 records are accepted and fewer than 30
\* attempts are made, otherwise the loop is left; so the loop has ended only
\* with 10 records or 30 attempts, and with fewer than 10 records only after
\* exactly 30 attempts.
C3_Termination ==
    /\ <>(pc \in {"done", "aborted"})
    /\ [][pc = "loop" =>
            IF Len(dataset) < 10 /\ tries < 30
            THEN pc' = "loop" /\ tries' = tries + 1 /\ client'.calls = client.calls + 1
            ELSE pc' = "save" /\ tries' = tries /\ client' = client]_vars
    /\ [](LoopEnded => (Len(dataset) = 10 \/ tries = 30))
    /\ [](LoopEnded /\ Len(dataset) < 10 => tries = 30)

\* a run that ended short of 10 records, after 30 attempts
C3_Witness ==
    /\ pc = "done"
    /\ Len(dataset) \in 1..9
    /\ tries = 30

\* C4: a run that passes the credential check writes the accepted list to the
\* file exactly once, after the loop has ended, whether or not 10 records
\* were reached, and the array written is the accepted list in order.
C4_WrittenOnce ==
    /\ [](pc # "done" => file.writes = 0 /\ file \in {NoFile, StaleFile})
    /\ [](pc = "done" => file.writes = 1 /\ FileHolds(dataset))
    /\ [](pc = "loop" => <>(pc = "done"))

\* a run that ended with some but not all records and replaced a stale file
C4_Witness ==
    /\ pc = "done"
    /\ Len(dataset) \in 1..9
    /\ Len(argv) = 2
    /\ file.writes = 1
    /\ FileHolds(dataset)

\* C5: with a client that raises on every call the loop makes all 30
\* attempts, no exception leaves the loop, and the file holds an empty array.
C5_AlwaysFail ==
    /\ [](client.mode = "always_fail" =>
            /\ pc # "crashed"
            /\ dataset = <<>>
            /\ (LoopEnded => tries = 30 /\ client.calls = 30)
            /\ (pc = "done" => file.exists /\ file.content = <<>>))
    /\ [](client.mode = "always_fail" /\ pc = "loop" => <>(pc = "done"))

\* the failing client's run has ended, over a stale file
C5_Witness ==
    /\ client.mode = "always_fail"
    /\ pc = "done"
    /\ Len(argv) = 2
    /\ file.content = <<>>

\* C6: with a client whose first 10 calls return 10 responses in the format,
\* carrying distinct questions, the file holds those 10 records in call
\* order, 10 attempts are made and there is no 11th call.
C6_TenDistinct ==
    client.mode = "distinct" =>
        /\ client.calls <= 10
        /\ tries <= 10
        /\ (LoopEnded => tries = 10 /\ client.calls = 10)
        /\ (pc = "done" => FileHolds([i \in 1..10 |-> ExpectedRecord(i)]))

\* such a run has ended; its last response came wrapped in commentary
C6_Witness ==
    /\ client.mode = "distinct"
    /\ pc = "done"
    /\ response.layout.pre # <<>>
    /\ Len(file.content) = 10

\* C7, as claimed: with a client that alternates a new question (odd calls)
\* with a repetition of the first accepted question (even calls) the run
\* stops at attempt 30 with exactly 2 records.
C7_AsClaimed ==
    client.mode = "alternate" /\ LoopEnded => tries = 30 /\ Len(dataset) = 2

\* C7, amended: with that client every odd call adds a record, so the run
\* stops at attempt 19 with exactly 10 records, the questions of the odd calls
\* in order.
C7_Alternate ==
    client.mode = "alternate" =>
        /\ (pc = "loop" => Len(dataset) = (tries + 1) \div 2)
        /\ (LoopEnded => tries = 19 /\ Len(dataset) = 10)
        /\ \A i \in 1..Len(dataset) : dataset[i] = ExpectedRecord(i)

\* the alternating client's run has ended
C7_Witness ==
    /\ client.mode = "alternate"
    /\ pc = "done"
    /\ tries = 19
    /\ FileHolds(dataset)

\* C8: when the API credential is absent the run aborts at startup: no client
\* call is made, the attempt counter stays 0 and no file is written.
C8_NoCredential ==
    ~environ.set =>
        /\ pc \in {"start", "aborted"}
        /\ client.calls = 0
        /\ tries = 0
        /\ file.writes = 0
        /\ file \in {NoFile, StaleFile}

\* the run was aborted for want of the credential
C8_Witness == ~environ.set /\ pc = "aborted"

-----------------------------------------------------------------------------
(* Properties of parse_mcq *)

\* the text s contains "Q:"
HasQ(s) == \E i \in 1..(Len(s) - 1) : s[i] = "Q" /\ s[i + 1] = ":"

\* the text of layout l contains the whole block, from a "Q:" to an answer letter
HasBlock(l) ==
    /\ l.shape = "full" \/ (l.shape = "noQ" /\ HasQ(l.pre))
    /\ l.ans \in Letters

\* the text of layout l lacks one of the labels or the Answer line
MissingLabel(l) ==
    \/ l.shape \in {"noA", "noB", "noC", "noD", "noAnswer"}
    \/ l.shape = "noQ" /\ ~HasQ(l.pre)

\* the options and the answer of record p are those of layout l
SameOptions(p, l) ==
    /\ p.options = [A |-> l.a, B |-> l.b, C |-> l.c, D |-> l.d]
    /\ p.correct = <<l.ans>>

C10_Parse ==
    pc = "parsed" =>
        LET l == response.layout
        IN  /\ l.shape = "full" /\ l.ans \in Letters /\ l.pre = <<>> /\ l.suf = <<>> =>
                /\ parsed # None
                /\ parsed.question = l.q
                /\ SameOptions(parsed, l)
            /\ MissingLabel(l) => parsed = None
            /\ parsed # None =>
                /\ DOMAIN parsed = {"subject", "level", "question", "options", "correct"}
                /\ DOMAIN parsed.options = Letters
                /\ parsed.correct \in {<<c>> : c \in Letters}

\* a response in the layout with padded, multi-line fields was parsed
C10_Witness ==
    /\ pc = "parsed"
    /\ response.layout.shape = "full"
    /\ response.layout.pre = <<>>
    /\ response.layout.suf = <<>>
    /\ response.layout.lpad = <<"\n", " ">>
    /\ response.layout.rpad = <<" ">>
    /\ response.layout.q = <<"x", "\n", "y">>
    /\ response.layout.a = <<"a", "\n", "a">>
    /\ parsed # None
    /\ parsed.question = <<"x", "\n", "y">>

-----------------------------------------------------------------------------
(* Properties of the attempts.  A step is an attempt when the client is    *)
(* called in it; client'.last is then what the client did, and the kind of *)
(* the attempt follows from it and from the questions seen before it.      *)

IsAttempt == client'.calls = client.calls + 1

\* the client raised, or handed back a response without text
Failed(o) == o.kind = "raise" \/ o.blocked

\* the response carries no block in the format
Unparseable(o) == ~Failed(o) /\ ~HasBlock(o.layout)

\* the response carries a block whose question is among those in seen
Duplicate(o, seen) == ~Failed(o) /\ HasBlock(o.layout) /\ o.layout.q \in seen

\* the response carries a block whose question is not among those in seen
Fresh(o, seen) == ~Failed(o) /\ HasBlock(o.layout) /\ o.layout.q \notin seen

\* the record that the block of layout l stands for
LayoutRecord(l) ==
    [subject  |-> subject,
     level    |-> level,
     question |-> l.q,
     options  |-> [A |-> l.a, B |-> l.b, C |-> l.c, D |-> l.d],
     correct  |-> <<l.ans>>]

\* C11: every attempt adds exactly 1 to the attempt counter whatever its
\* outcome, and an attempt that ends in a client exception, a parse failure
\* or a duplicate leaves the accepted list and the seen set unchanged.
C11_Attempt ==
    [][IsAttempt =>
        /\ tries' = tries + 1
        /\ (\/ Failed(client'.last)
            \/ Unparseable(client'.last)
            \/ Duplicate(client'.last, seen_questions))
           => UNCHANGED <<dataset, seen_questions>>]_vars

\* a repetition of the first question, with other options, has been the third
\* attempt, after two accepted ones
C11_Witness ==
    /\ pc = "loop"
    /\ client.last = Resp(Again(1))
    /\ tries = 3
    /\ Len(dataset) = 2
    /\ Cardinality(seen_questions) = 2

\* C12: an attempt whose response parses and whose question is not in the
\* seen set appends exactly one record, that of the response, to the end of
\* the accepted list and adds exactly its question to the seen set; no other
\* step changes the length of the list, so the number of accepted records is
\* the number of such attempts.
C12_Accept ==
    [][IF IsAttempt /\ Fresh(client'.last, seen_questions)
       THEN /\ dataset' = Append(dataset, LayoutRecord(client'.last.layout))
            /\ seen_questions' = seen_questions \cup {client'.last.layout.q}
       ELSE Len(dataset') = Len(dataset)]_vars

\* the third question, wrapped in commentary, was accepted at the fifth attempt
C12_Witness ==
    /\ pc = "loop"
    /\ client.last = Resp(Chatty(3))
    /\ tries = 5
    /\ Len(dataset) = 3
    /\ dataset[3] = ExpectedRecord(3)
    /\ QText(3) \in seen_questions

\* C13: the accepted list is append-only: a record accepted at position i
\* stays at position i, unchanged, in every later state, and is the i-th
\* record of the file once the file is written.
C13_AppendOnly ==
    /\ [][\A i \in 1..Len(dataset) :
            i <= Len(dataset') /\ dataset'[i] = dataset[i]]_vars
    /\ [](pc = "done" => FileHolds(dataset))

\* a full list was written after 30 attempts; its first record is the one
\* accepted first
C13_Witness ==
    /\ pc = "done"
    /\ Len(dataset) = 10
    /\ tries = 30
    /\ dataset[1] = ExpectedRecord(1)
    /\ json_record(file.content[1]) = ExpectedRecord(1)

\* C14: the client is called exactly once per attempt: in every state the
\* number of calls made equals the attempt counter, which is at most 30, and
\* no call is made once the 10th record is accepted.
C14_OneCallPerAttempt ==
    /\ [](client.calls = tries /\ client.calls <= 30)
    /\ [][Len(dataset) >= 10 => client'.calls = client.calls]_vars

\* the 10th record was accepted before the attempts ran out, and the run ended
C14_Witness ==
    /\ pc = "done"
    /\ Len(dataset) = 10
    /\ client.calls \in 11..29
    /\ client.calls = tries

\* the sequence index a prompt was built with ("question number {count+1}")
Index(p) == p.number - 1

\* C15: the sequence index passed to the prompt builder on each attempt is
\* the accepted count at that moment: it is in 0..9, it is the index of the
\* attempt before or that plus 1, and the accepted count after the attempt is
\* the index plus 1 if the attempt was accepted and the index otherwise (so
\* the next index is the same after a failed, unparseable or duplicate attempt
\* and 1 more after an accepted one).
C15_PromptIndex ==
    [][IsAttempt =>
        /\ Index(prompt') = Len(dataset)
        /\ Index(prompt') \in 0..9
        /\ prompt # None => Index(prompt') - Index(prompt) \in {0, 1}
        /\ Len(dataset') = Index(prompt')
                + (IF Fresh(client'.last, seen_questions) THEN 1 ELSE 0)]_vars

\* the fifth attempt was made with index 2 and failed: the count is still 2
C15_Witness ==
    /\ pc = "loop"
    /\ tries = 5
    /\ prompt # None
    /\ Index(prompt) = 2
    /\ client.last.kind = "raise"
    /\ Len(dataset) = 2

\* C16: in every reachable state the seen set is exactly the set of the
\* question texts of the accepted records and has as many elements as the
\* list has records; the text of a response that failed, did not parse or was
\* a duplicate is not added to it.
C16_SeenIsAccepted ==
    /\ seen_questions = {dataset[i].question : i \in 1..Len(dataset)}
    /\ Cardinality(seen_questions) = Len(dataset)

\* the third question came without its Answer line and was not recorded
C16_Witness ==
    /\ pc = "loop"
    /\ client.last = Resp(Broken(3))
    /\ Len(dataset) = 2
    /\ seen_questions = {QText(1), QText(2)}

\* C17: in every reachable state the accepted count is at most the attempt
\* counter, and the k-th record is accepted in an attempt numbered at least
\* k; a list of 10 records takes at least 10 attempts.
C17_CountAtMostTries ==
    /\ [](Len(dataset) <= tries)
    /\ [][Len(dataset') > Len(dataset) => tries' >= Len(dataset')]_vars
    /\ [](Len(dataset) = 10 => tries >= 10)

\* the 10th record was accepted in the 10th attempt
C17_Witness ==
    /\ Len(dataset) = 10
    /\ tries = 10
    /\ client.mode = "any"

====
